---- MODULE Spec2Model ----
(***************************************************************************)
(* A model of three pieces of the app:                                     *)
(*   - CoreLoginEmailSignupPage    (email-signup.page.ts)                  *)
(*   - AddonCalendarUpcomingEventsComponent (upcoming-events.ts, 1..324)   *)
(*   - CoreSitePluginsHelperProvider        (upcoming-events.ts, 325..969) *)
(* Each piece has its own specification over its own variables; the        *)
(* variables of the other pieces stay at their initial value.              *)
(*                                                                         *)
(* An async method is cut at its awaits: one action per stretch of code    *)
(* between two awaits, the settled value of the awaited promise being the  *)
(* action's input.  undefined is the string "undefined"; a tri-state       *)
(* boolean is one of "undefined", "true", "false".                         *)
(***************************************************************************)
EXTENDS Integers, Sequences, FiniteSets, TLC

\* ------------------------------------------------------------------------
\* Signup page: state
\* ------------------------------------------------------------------------
VARIABLES
    signupForm,                    \* value of the controls of signupForm
    settings,                      \* AuthEmailSignupSettings; defined = FALSE for undefined
    captcha,                       \* captcha.recaptcharesponse
    settingsLoaded,
    ageVerificationForm,           \* [age, country]: country is countryControl
    signUpCountryControl,          \* "undefined" until completeFormGroup ran
    isMinor,
    ageDigitalConsentVerification, \* "undefined" | "true" | "false"
    pagePc,                        \* which handler of the page is running, and where
    \* What the last handler started on the page did (cleared when the next one starts):
    createCheck,                   \* create: what the check of line 258 saw
    createLog,                     \* create: calls made by the running/last call
    createResult,                  \* create: how auth_email_signup_user settled
    verifyLog,                     \* verifyAge: calls made by the running/last call
    verifyResult,                  \* verifyAge: how core_auth_is_minor settled
    verifyBefore                   \* verifyAge: isMinor and the verification flag on entry

signupVars == <<signupForm, settings, captcha, settingsLoaded, ageVerificationForm,
                signUpCountryControl, isMinor, ageDigitalConsentVerification, pagePc,
                createCheck, createLog, createResult, verifyLog, verifyResult,
                verifyBefore>>

\* The upcoming events component.
VARIABLES
    \* What the services answer in this run: the site's upcoming events, the
    \* events edited and the ids deleted in offline, the look-ahead preference.
    serverEvents, offlineStore, deletedStore, lookAheadPref,
    \* The component's fields.
    filter, filteredEvents, loaded, categoriesRetrieved, events, onlineEvents,
    offlineEvents, deletedEvents, lookAhead,
    \* The running calls.
    fetchDataPc,     \* "created" | "idle" | "waiting" (at the await of line 158)
    promises,        \* fetchData's requests that have not settled yet
    rejected,        \* one of them was rejected: Promise.all is rejected
    upcomingCalls,   \* fetchEvents calls waiting for getUpcomingEvents (line 176)
    formatCalls,     \* fetchEvents calls waiting for formatEventTime (line 193)
    refreshPc,       \* "idle" | "invalidating" (at the await of line 247)
    invalidations,   \* refreshData's invalidations that have not settled yet
    \* Records kept for the properties.
    fetchDataDone,   \* how the last fetchData ended: "none" | "ok" | "error"
    retrievals,      \* [started, retrieved, completed]: did a fetchEvents get that far
    lastMerge,       \* what the last mergeEvents read
    lastRefresh      \* what the last refreshData was called with and invalidated

calVars == <<serverEvents, offlineStore, deletedStore, lookAheadPref,
             filter, filteredEvents, loaded, categoriesRetrieved, events, onlineEvents,
             offlineEvents, deletedEvents, lookAhead, fetchDataPc, promises, rejected,
             upcomingCalls, formatCalls, refreshPc, invalidations,
             fetchDataDone, retrievals, lastMerge, lastRefresh>>

\* The site plugins helper: login and logout.
VARIABLES
    currentSiteId,         \* sitesProvider.getCurrentSiteId(); "" when logged out
    hasSitePluginsLoaded,  \* sitePluginsProvider.hasSitePluginsLoaded
    fetches,               \* fetchSitePlugins calls of the LOGIN listener, running
    loads,                 \* loadSitePlugins calls of the LOGIN listener, running
    triggered,             \* site ids SITE_PLUGINS_LOADED was triggered for
    \* Records kept for the properties.
    loadSitePluginCalled,  \* loadSitePlugin was called since the app started
    loadedSites,           \* site ids the listener called loadSitePlugins for
    lastStep               \* what the listener step just taken saw and did

loginVars == <<currentSiteId, hasSitePluginsLoaded, fetches, loads, triggered,
               loadSitePluginCalled, loadedSites, lastStep>>

\* The site plugins helper: registerHandler.
VARIABLES
    delegates,            \* for each delegate of the helper, the names registered in it
    sitePluginHandlers,   \* the names stored with setSitePluginHandler
    reg,                  \* the registerHandler call in progress
    regCalls              \* the number of registerHandler calls started

regVars == <<delegates, sitePluginHandlers, reg, regCalls>>

\* The site plugins helper: downloadStyles.
VARIABLES
    filepool,       \* the URLs of the files cached for the handler's component id
    removals,       \* the removeFileByUrl requests in progress
    dl,             \* the downloadStyles call in progress
    dlCalls         \* the number of downloadStyles calls started

stylesVars == <<filepool, removals, dl, dlCalls>>

loginOwnVars == <<hasSitePluginsLoaded, fetches, loads, triggered, loadSitePluginCalled,
                  loadedSites, lastStep>>
vars == <<signupVars, calVars, loginVars, regVars, stylesVars>>

\* What the steps of one part leave alone: the state of the other parts.
otherThanSignup == <<calVars, loginVars, regVars, stylesVars>>
otherThanCal == <<signupVars, loginVars, regVars, stylesVars>>
otherThanLogin == <<signupVars, calVars, regVars, stylesVars>>
otherThanRegister == <<signupVars, calVars, loginOwnVars, stylesVars>>
otherThanStyles == <<signupVars, calVars, loginOwnVars, regVars>>

Undefined == "undefined"
TriState == {"undefined", "true", "false"}

\* A call made on a service: [fn |-> name, arg |-> <<...>>].
Call(fn, arg) == [fn |-> fn, arg |-> arg]

\* Translate.instance.instant(key), and a text shown as it is.
Translated(key) == <<"translated", key>>
Literal(text) == <<"literal", text>>

\* CoreDomUtils.showErrorModal(error, needsTranslate).
showErrorModal(error, needsTranslate) ==
    Call("showErrorModal", IF needsTranslate THEN Translated(error) ELSE Literal(error))

\* CoreDomUtils.showErrorModalDefault(error, defaultKey, true): the error's own
\* message when it has one, the translated default otherwise.
showErrorModalDefault(error, defaultKey) ==
    Call("showErrorModalDefault",
         IF error = "" THEN Translated(defaultKey) ELSE Literal(error))

\* ------------------------------------------------------------------------
\* Signup page: inputs
\* ------------------------------------------------------------------------
\* One control per kind of validator: username stands for the controls with
\* Validators.required (username, password, the name fields), email for the
\* controls with required + email (email, email2), policyagreed for
\* Validators.requiredTrue; policyagreed is "absent" until completeFormGroup
\* adds it for a site with a site policy.
UsernameValues == {"", "user"}
EmailValues == {"", "no-at-sign", "a@b.c"}
PolicyValues == {"absent", "false", "true"}
CaptchaValues == {"", "captcha-response"}
AgeValues == {"", "15"}
CountryValues == {"", "ES"}

SettingsValues ==
    [defined : {TRUE}, recaptchapublickey : {"", "public-key"},
     sitepolicy : {"", "policy-url"}, country : CountryValues]

\* this.settings before getSignupSettings has set it: every settings?.x is undefined.
NoSettings == [defined |-> FALSE, recaptchapublickey |-> "", sitepolicy |-> "", country |-> ""]

\* The part of CoreSitePublicConfigResponse treatSiteConfig reads.
SiteConfigValues ==
    [registerauth : {"email", "manual"},
     agedigitalconsentverification : TriState,
     country : CountryValues]

\* SignupUserResult; warnings holds the messages, <<>> for none or no list.
WarningMessages == {"incorrect-captcha-sol", "username-exists"}
SignupUserResults ==
    [success : BOOLEAN,
     warnings : {<<>>} \cup {<<m>> : m \in WarningMessages}
                \cup {<<m, "second-warning">> : m \in WarningMessages}]

\* What a rejected callAjax carries: a message, or nothing usable.
AjaxErrors == {"", "network-error"}

\* ------------------------------------------------------------------------
\* Signup page: functions
\* ------------------------------------------------------------------------
\* Validators.email on a non-empty value.
IsEmail(v) == v = "a@b.c"

\* signupForm.valid.
SignupFormValid(form) ==
    /\ form.username # ""
    /\ form.email # "" /\ IsEmail(form.email)
    /\ form.policyagreed # "false"

\* settings?.recaptchapublickey, as a truth value.
HasRecaptcha(s) == s.defined /\ s.recaptchapublickey # ""

\* create, line 258: the form cannot be sent.
CreateRefusesNoCaptchaCheck(form, s, response) == ~SignupFormValid(form)
CreateRefuses(form, s, response) ==
    ~SignupFormValid(form) \/ (HasRecaptcha(s) /\ response = "")

\* create, lines 300-319: what is done with a result of auth_email_signup_user.
CreateOnResultAlwaysPops(result) ==
    IF result.success
    THEN <<Call("triggerFormSubmittedEvent", <<>>), Call("showAlert", <<>>),
           Call("navCtrl.pop", <<>>)>>
    ELSE <<showErrorModal("core.login.usernotaddederror", TRUE),
           Call("navCtrl.pop", <<>>)>>
CreateOnResult(result) ==
    IF result.success
    THEN <<Call("triggerFormSubmittedEvent", <<>>), Call("showAlert", <<>>),
           Call("navCtrl.pop", <<>>)>>
    ELSE IF Len(result.warnings) > 0
         THEN IF result.warnings[1] = "incorrect-captcha-sol"
              THEN <<Call("showErrorModal", Translated("core.login.recaptchaincorrect"))>>
              ELSE <<showErrorModal(result.warnings[1], FALSE)>>
         ELSE <<showErrorModal("core.login.usernotaddederror", TRUE)>>

\* ageVerificationForm.valid: age and country are required.
AgeFormValid(form) == form.age # "" /\ form.country # ""

\* completeFormGroup: the controls added to signupForm and signUpCountryControl.
\* addControl keeps a control that exists already.
CompletedForm(form, s) ==
    IF s.defined /\ s.sitepolicy # "" /\ form.policyagreed = "absent"
    THEN [form EXCEPT !.policyagreed = "false"]
    ELSE form
CompletedCountry(s) == IF s.defined THEN s.country ELSE ""

NoResult == [kind |-> "none", warnings |-> <<>>]
NoCreate == createCheck' = "none" /\ createLog' = <<>> /\ createResult' = NoResult
NoVerify == verifyLog' = <<>> /\ verifyResult' = "none" /\ verifyBefore' = <<FALSE, "undefined">>

SignupInit ==
    /\ signupForm = [username |-> "", email |-> "", policyagreed |-> "absent"]
    /\ settings = NoSettings
    /\ captcha = ""
    /\ settingsLoaded = FALSE
    /\ ageVerificationForm = [age |-> "", country |-> ""]
    /\ signUpCountryControl = Undefined
    /\ isMinor = FALSE
    /\ ageDigitalConsentVerification = "undefined"
    /\ pagePc = "created"
    /\ createCheck = "none"
    /\ createLog = <<>>
    /\ createResult = NoResult
    /\ verifyLog = <<>>
    /\ verifyResult = "none"
    /\ verifyBefore = <<FALSE, "undefined">>

\* ------------------------------------------------------------------------
\* Signup page: fetchData (ngOnInit, refreshSettings)
\* ------------------------------------------------------------------------
\* ngOnInit / refreshSettings: fetchData starts and awaits getSitePublicConfig.
FetchSettingsStart ==
    /\ pagePc \in {"created", "idle"}
    /\ pagePc' = "fetch:config"
    /\ NoCreate /\ NoVerify
    /\ UNCHANGED <<signupForm, settings, captcha, settingsLoaded, ageVerificationForm,
                   signUpCountryControl, isMinor, ageDigitalConsentVerification>>
    /\ UNCHANGED otherThanSignup

\* getSitePublicConfig resolved: treatSiteConfig (lines 214-235).
SiteConfigResolved ==
    /\ pagePc = "fetch:config"
    /\ \E cfg \in SiteConfigValues :
        IF cfg.registerauth = "email"
        THEN /\ ageDigitalConsentVerification' = cfg.agedigitalconsentverification
             /\ ageVerificationForm' = [ageVerificationForm EXCEPT !.country = cfg.country]
             /\ pagePc' = IF cfg.agedigitalconsentverification = "undefined"
                           THEN "fetch:agecheck" ELSE "fetch:settings"
             /\ UNCHANGED <<signupForm, signUpCountryControl, settingsLoaded>>
        ELSE \* Signup disabled: error modal, navCtrl.pop(), then completeFormGroup.
             /\ signupForm' = CompletedForm(signupForm, settings)
             /\ signUpCountryControl' = CompletedCountry(settings)
             /\ settingsLoaded' = TRUE
             /\ pagePc' = "left"
             /\ UNCHANGED <<ageDigitalConsentVerification, ageVerificationForm>>
    /\ UNCHANGED <<settings, captcha, isMinor, createCheck, createLog, createResult,
                   verifyLog, verifyResult, verifyBefore>>
    /\ UNCHANGED otherThanSignup

\* A request of fetchData rejected (getSitePublicConfig, auth_email_get_signup_settings
\* or getCountryListSorted): the catch of line 168 shows the error, completeFormGroup
\* is skipped, and the finally of the caller sets settingsLoaded.
FetchSettingsRejected ==
    /\ pagePc \in {"fetch:config", "fetch:settings", "fetch:countries"}
    /\ settingsLoaded' = TRUE
    /\ pagePc' = "idle"
    /\ UNCHANGED <<signupForm, settings, captcha, ageVerificationForm,
                   signUpCountryControl, isMinor, ageDigitalConsentVerification,
                   createCheck, createLog, createResult, verifyLog, verifyResult,
                   verifyBefore>>
    /\ UNCHANGED otherThanSignup

\* core_auth_is_age_digital_consent_verification_enabled settled (errors ignored).
AgeCheckSettled ==
    /\ pagePc = "fetch:agecheck"
    /\ \E status \in {"undefined", "true", "false"} :
        ageDigitalConsentVerification' = IF status = "true" THEN "true" ELSE "false"
    /\ pagePc' = "fetch:settings"
    /\ UNCHANGED <<signupForm, settings, captcha, settingsLoaded, ageVerificationForm,
                   signUpCountryControl, isMinor, createCheck, createLog, createResult,
                   verifyLog, verifyResult, verifyBefore>>
    /\ UNCHANGED otherThanSignup

\* auth_email_get_signup_settings resolved (lines 181-204).
SignupSettingsResolved ==
    /\ pagePc = "fetch:settings"
    /\ \E s \in SettingsValues :
        /\ settings' = s
        /\ captcha' = IF s.recaptchapublickey # "" THEN "" ELSE captcha
        /\ ageVerificationForm' =
              IF ageVerificationForm.country = ""
              THEN [ageVerificationForm EXCEPT !.country = s.country]
              ELSE ageVerificationForm
    /\ pagePc' = "fetch:countries"
    /\ UNCHANGED <<signupForm, settingsLoaded, signUpCountryControl, isMinor,
                   ageDigitalConsentVerification, createCheck, createLog, createResult,
                   verifyLog, verifyResult, verifyBefore>>
    /\ UNCHANGED otherThanSignup

\* getCountryListSorted resolved: getSignupSettings returns, completeFormGroup runs.
CountriesResolved ==
    /\ pagePc = "fetch:countries"
    /\ signupForm' = CompletedForm(signupForm, settings)
    /\ signUpCountryControl' = CompletedCountry(settings)
    /\ settingsLoaded' = TRUE
    /\ pagePc' = "idle"
    /\ UNCHANGED <<settings, captcha, ageVerificationForm, isMinor,
                   ageDigitalConsentVerification, createCheck, createLog, createResult,
                   verifyLog, verifyResult, verifyBefore>>
    /\ UNCHANGED otherThanSignup

\* The user fills the signup form and solves the captcha once the page is loaded.
EditSignupForm ==
    /\ pagePc = "idle"
    /\ settingsLoaded
    /\ \E u \in UsernameValues, e \in EmailValues, p \in PolicyValues, c \in CaptchaValues :
        /\ (signupForm.policyagreed = "absent") = (p = "absent")
        /\ signupForm' = [username |-> u, email |-> e, policyagreed |-> p]
        /\ captcha' = c
    /\ UNCHANGED <<settings, settingsLoaded, ageVerificationForm, signUpCountryControl,
                   isMinor, ageDigitalConsentVerification, pagePc, createCheck, createLog,
                   createResult, verifyLog, verifyResult, verifyBefore>>
    /\ UNCHANGED otherThanSignup

\* The user fills the age verification form.
EditAgeForm ==
    /\ pagePc = "idle"
    /\ settingsLoaded
    /\ \E a \in AgeValues, k \in CountryValues :
        ageVerificationForm' = [age |-> a, country |-> k]
    /\ UNCHANGED <<signupForm, settings, captcha, settingsLoaded, signUpCountryControl,
                   isMinor, ageDigitalConsentVerification, pagePc, createCheck, createLog,
                   createResult, verifyLog, verifyResult, verifyBefore>>
    /\ UNCHANGED otherThanSignup

\* ------------------------------------------------------------------------
\* Signup page: create (lines 254-325)
\* ------------------------------------------------------------------------
Popped(log) == \E i \in 1..Len(log) : log[i].fn = "navCtrl.pop"

\* Lines 255-270: the check of the form, then the first await.
CreateStart ==
    /\ pagePc = "idle"
    /\ settingsLoaded
    /\ createResult' = NoResult
    /\ IF CreateRefuses(signupForm, settings, captcha)
       THEN /\ createCheck' = "refused"
            /\ createLog' = <<Call("scrollToInputError", <<>>)>>
            /\ pagePc' = "create:scroll"
       ELSE /\ createCheck' = "accepted"
            /\ createLog' = <<Call("showModalLoading", <<>>)>>
            /\ pagePc' = "create:modal"
    /\ NoVerify
    /\ UNCHANGED <<signupForm, settings, captcha, settingsLoaded, ageVerificationForm,
                   signUpCountryControl, isMinor, ageDigitalConsentVerification>>
    /\ UNCHANGED otherThanSignup

\* Lines 260-267: scrollToInputError resolved with errorFound.
CreateScrollResolved ==
    /\ pagePc = "create:scroll"
    /\ \E errorFound \in BOOLEAN :
        createLog' = IF errorFound THEN createLog
                     ELSE Append(createLog, showErrorModal("core.errorinvalidform", TRUE))
    /\ pagePc' = "idle"
    /\ UNCHANGED <<signupForm, settings, captcha, settingsLoaded, ageVerificationForm,
                   signUpCountryControl, isMinor, ageDigitalConsentVerification,
                   createCheck, createResult, verifyLog, verifyResult, verifyBefore>>
    /\ UNCHANGED otherThanSignup

\* Lines 270-298: the loading modal is up, the params are built and
\* auth_email_signup_user is called; recaptcharesponse is sent when line 288 holds.
CreateModalShown ==
    /\ pagePc = "create:modal"
    /\ createLog' = Append(createLog,
          Call("callAjax", <<"auth_email_signup_user",
               IF HasRecaptcha(settings) /\ captcha # "" THEN captcha ELSE "">>))
    /\ pagePc' = "create:ajax"
    /\ UNCHANGED <<signupForm, settings, captcha, settingsLoaded, ageVerificationForm,
                   signUpCountryControl, isMinor, ageDigitalConsentVerification,
                   createCheck, createResult, verifyLog, verifyResult, verifyBefore>>
    /\ UNCHANGED otherThanSignup

\* Lines 300-319 and 322-324: auth_email_signup_user resolved.
CreateAjaxResolved ==
    /\ pagePc = "create:ajax"
    /\ \E result \in SignupUserResults :
        /\ createLog' = createLog \o CreateOnResult(result)
                          \o <<Call("modal.dismiss", <<>>)>>
        /\ createResult' = [kind |-> IF result.success THEN "success" ELSE "failure",
                            warnings |-> result.warnings]
    /\ pagePc' = IF Popped(createLog') THEN "left" ELSE "idle"
    /\ UNCHANGED <<signupForm, settings, captcha, settingsLoaded, ageVerificationForm,
                   signUpCountryControl, isMinor, ageDigitalConsentVerification,
                   createCheck, verifyLog, verifyResult, verifyBefore>>
    /\ UNCHANGED otherThanSignup

\* Lines 320-324: auth_email_signup_user rejected.
CreateAjaxRejected ==
    /\ pagePc = "create:ajax"
    /\ \E error \in AjaxErrors :
        createLog' = createLog
                     \o <<showErrorModalDefault(error, "core.login.usernotaddederror"),
                          Call("modal.dismiss", <<>>)>>
    /\ createResult' = [kind |-> "thrown", warnings |-> <<>>]
    /\ pagePc' = "idle"
    /\ UNCHANGED <<signupForm, settings, captcha, settingsLoaded, ageVerificationForm,
                   signUpCountryControl, isMinor, ageDigitalConsentVerification,
                   createCheck, verifyLog, verifyResult, verifyBefore>>
    /\ UNCHANGED otherThanSignup

\* ------------------------------------------------------------------------
\* Signup page: verifyAge (lines 357-395)
\* ------------------------------------------------------------------------
\* Lines 376-388: what a result of core_auth_is_minor does to the page.  Line 380
\* dereferences signUpCountryControl, which is undefined until completeFormGroup
\* has run: the TypeError leaves the try block before line 384.
VerifyAgeOnResult(status, country, control, minor, verification) ==
    IF ~status
    THEN IF country # "" /\ control = Undefined
         THEN [isMinor |-> minor, verification |-> verification, control |-> control,
               threw |-> TRUE]
         ELSE [isMinor |-> minor, verification |-> "false",
               control |-> IF country # "" THEN country ELSE control, threw |-> FALSE]
    ELSE [isMinor |-> TRUE, verification |-> verification, control |-> control,
          threw |-> FALSE]

VerifyAgeError == "There was an error verifying your age, please try again using the browser."

\* Lines 358-367.
VerifyAgeStart ==
    /\ pagePc = "idle"
    /\ settingsLoaded
    /\ verifyBefore' = <<isMinor, ageDigitalConsentVerification>>
    /\ IF ~AgeFormValid(ageVerificationForm)
       THEN /\ verifyLog' = <<showErrorModal("core.errorinvalidform", TRUE)>>
            /\ verifyResult' = "invalid"
            /\ pagePc' = "idle"
       ELSE /\ verifyLog' = <<Call("showModalLoading", <<>>)>>
            /\ verifyResult' = "none"
            /\ pagePc' = "verify:modal"
    /\ NoCreate
    /\ UNCHANGED <<signupForm, settings, captcha, settingsLoaded, ageVerificationForm,
                   signUpCountryControl, isMinor, ageDigitalConsentVerification>>
    /\ UNCHANGED otherThanSignup

\* Lines 367-374: the loading modal is up, core_auth_is_minor is called.
VerifyAgeModalShown ==
    /\ pagePc = "verify:modal"
    /\ verifyLog' = Append(verifyLog, Call("callAjax", <<"core_auth_is_minor">>))
    /\ pagePc' = "verify:ajax"
    /\ UNCHANGED <<signupForm, settings, captcha, settingsLoaded, ageVerificationForm,
                   signUpCountryControl, isMinor, ageDigitalConsentVerification,
                   createCheck, createLog, createResult, verifyResult, verifyBefore>>
    /\ UNCHANGED otherThanSignup

\* Lines 374-394: core_auth_is_minor resolved with result.status.
VerifyAgeResolved ==
    /\ pagePc = "verify:ajax"
    /\ \E status \in BOOLEAN :
        LET r == VerifyAgeOnResult(status, ageVerificationForm.country,
                                   signUpCountryControl, isMinor,
                                   ageDigitalConsentVerification)
        IN  /\ isMinor' = r.isMinor
            /\ ageDigitalConsentVerification' = r.verification
            /\ signUpCountryControl' = r.control
            /\ verifyLog' = verifyLog \o <<Call("triggerFormSubmittedEvent", <<>>)>>
                  \o (IF r.threw THEN <<showErrorModal(VerifyAgeError, FALSE)>> ELSE <<>>)
                  \o <<Call("modal.dismiss", <<>>)>>
            /\ verifyResult' = IF status THEN "status:true" ELSE "status:false"
    /\ pagePc' = "idle"
    /\ UNCHANGED <<signupForm, settings, captcha, settingsLoaded, ageVerificationForm,
                   createCheck, createLog, createResult, verifyBefore>>
    /\ UNCHANGED otherThanSignup

\* Lines 389-394: core_auth_is_minor rejected.
VerifyAgeRejected ==
    /\ pagePc = "verify:ajax"
    /\ verifyLog' = verifyLog \o <<showErrorModal(VerifyAgeError, FALSE),
                                    Call("modal.dismiss", <<>>)>>
    /\ verifyResult' = "thrown"
    /\ pagePc' = "idle"
    /\ UNCHANGED <<signupForm, settings, captcha, settingsLoaded, ageVerificationForm,
                   signUpCountryControl, isMinor, ageDigitalConsentVerification,
                   createCheck, createLog, createResult, verifyBefore>>
    /\ UNCHANGED otherThanSignup

SignupNext ==
    \/ FetchSettingsStart \/ SiteConfigResolved \/ FetchSettingsRejected
    \/ AgeCheckSettled \/ SignupSettingsResolved \/ CountriesResolved
    \/ EditSignupForm \/ EditAgeForm
    \/ CreateStart \/ CreateScrollResolved \/ CreateModalShown
    \/ CreateAjaxResolved \/ CreateAjaxRejected
    \/ VerifyAgeStart \/ VerifyAgeModalShown \/ VerifyAgeResolved \/ VerifyAgeRejected

\* ------------------------------------------------------------------------
\* Signup page: properties
\* ------------------------------------------------------------------------
CreateRunning == {"create:scroll", "create:modal", "create:ajax"}
ErrorModals(log) ==
    {i \in 1..Len(log) : log[i].fn \in {"showErrorModal", "showErrorModalDefault"}}
Made(log, fn) == \E i \in 1..Len(log) : log[i].fn = fn

\* C8: when create finds the signup form invalid, or the settings declare a
\* recaptcha public key and the captcha response is empty, it sends no
\* auth_email_signup_user request, shows no loading modal and does not navigate:
\* it only scrolls to the first input error and, if none is found, shows the
\* invalid-form error modal.  (The forms cannot change while create runs, so the
\* condition create saw is the condition of the current state.)
C8_InvalidFormSendsNothing ==
    /\ pagePc \in CreateRunning =>
          ((createCheck = "refused") <=>
             (~SignupFormValid(signupForm)
                \/ (settings.defined /\ settings.recaptchapublickey # "" /\ captcha = "")))
    /\ createCheck = "refused" =>
          /\ pagePc \in {"create:scroll", "idle"}
          /\ ~Made(createLog, "callAjax")
          /\ ~Made(createLog, "showModalLoading")
          /\ ~Made(createLog, "navCtrl.pop")
          /\ createLog[1] = Call("scrollToInputError", <<>>)
          /\ \/ Len(createLog) = 1
             \/ /\ Len(createLog) = 2
                /\ pagePc = "idle"
                /\ createLog[2] = Call("showErrorModal", Translated("core.errorinvalidform"))

\* C8 witness: a valid form refused for its empty captcha response, no input
\* error found, the invalid-form modal shown.
C8_Witness ==
    /\ pagePc = "idle" /\ createCheck = "refused"
    /\ SignupFormValid(signupForm) /\ captcha = ""
    /\ Len(createLog) = 2

\* C9: create leaves the page (navCtrl.pop, success alert, form-submitted event)
\* if and only if auth_email_signup_user returned success = true; on success =
\* false or a rejected call exactly one error modal is shown and the page is not
\* popped.  The modal shows the first warning's message ('incorrect-captcha-sol'
\* replaced by the translated recaptcha-incorrect message), or the default
\* user-not-added error when there is no warning.
C9_LeavesOnlyOnSuccess ==
    /\ createResult.kind = "none" =>
          /\ ~Made(createLog, "navCtrl.pop") /\ ~Made(createLog, "showAlert")
          /\ ~Made(createLog, "triggerFormSubmittedEvent")
    /\ createResult.kind = "success" =>
          /\ Made(createLog, "navCtrl.pop") /\ Made(createLog, "showAlert")
          /\ Made(createLog, "triggerFormSubmittedEvent")
          /\ ErrorModals(createLog) = {}
          /\ pagePc = "left"
    /\ createResult.kind \in {"failure", "thrown"} =>
          /\ ~Made(createLog, "navCtrl.pop") /\ ~Made(createLog, "showAlert")
          /\ ~Made(createLog, "triggerFormSubmittedEvent")
          /\ Cardinality(ErrorModals(createLog)) = 1
          /\ pagePc # "left"
    /\ createResult.kind = "failure" =>
          \A i \in ErrorModals(createLog) :
              createLog[i].arg =
                 IF createResult.warnings = <<>>
                 THEN Translated("core.login.usernotaddederror")
                 ELSE IF Head(createResult.warnings) = "incorrect-captcha-sol"
                      THEN Translated("core.login.recaptchaincorrect")
                      ELSE Literal(Head(createResult.warnings))
    /\ createResult.kind = "thrown" =>
          \A i \in ErrorModals(createLog) :
              /\ createLog[i].fn = "showErrorModalDefault"
              /\ createLog[i].arg \in {Translated("core.login.usernotaddederror")}
                                       \cup {Literal(e) : e \in AjaxErrors \ {""}}

\* C9 witness: the call returned success = false with the warning
\* 'incorrect-captcha-sol' first, and create has finished.
C9_Witness ==
    /\ createResult.kind = "failure"
    /\ Len(createResult.warnings) = 2
    /\ Head(createResult.warnings) = "incorrect-captcha-sol"
    /\ pagePc = "idle"

\* C10: verifyAge calls core_auth_is_minor only when the age verification form is
\* valid; on status false it sets ageDigitalConsentVerification to false and
\* leaves isMinor unchanged, on status true it sets isMinor and leaves
\* ageDigitalConsentVerification unchanged, and when the call fails neither
\* changes; isMinor never goes back from true to false.
C10_VerifyAgeSetsFlags ==
    /\ verifyResult = "invalid" => ~Made(verifyLog, "callAjax")
    /\ verifyResult = "status:false" =>
          ageDigitalConsentVerification = "false" /\ isMinor = verifyBefore[1]
    /\ verifyResult = "status:true" =>
          isMinor /\ ageDigitalConsentVerification = verifyBefore[2]
    /\ verifyResult = "thrown" =>
          isMinor = verifyBefore[1] /\ ageDigitalConsentVerification = verifyBefore[2]
    /\ verifyBefore[1] => isMinor

\* ========================================================================
\* Upcoming events component (upcoming-events.ts, lines 39-324)
\* ========================================================================

\* ------------------------------------------------------------------------
\* Upcoming events: inputs
\* ------------------------------------------------------------------------
MaxOnline == 2      \* events in a reply of getUpcomingEvents
MaxFetchEvents == 2 \* fetchEvents calls running at once

\* CoreConstants.SECONDS_DAY.
SECONDS_DAY == 86400

\* Date.now() / 1000 at the merge.
NowValues == {100000}

\* Start and duration of an event: over before now, started before now and still
\* running, and starting within one day.
EventTimes ==
    {[timestart |-> 90000, timeduration |-> 0],
     [timestart |-> 90000, timeduration |-> 20000],
     [timestart |-> 150000, timeduration |-> 0]}

Event(id, t) ==
    [id |-> id, timestart |-> t.timestart, timeduration |-> t.timeduration,
     courseid |-> 1 + (id % 2)]

\* Replies of getUpcomingEvents: the i-th event has id i, in any order of time.
RECURSIVE ServerReplies(_)
ServerReplies(n) ==
    IF n = 0 THEN {<<>>}
    ELSE LET shorter == ServerReplies(n - 1)
         IN  shorter \cup {Append(r, Event(n, t)) : r \in {x \in shorter : Len(x) = n - 1},
                                                    t \in EventTimes}

\* Events edited in offline: none, an edit of event 1, or a new event (id 99).
OfflineStores ==
    {<<>>} \cup {<<Event(id, t)>> : id \in {1, 99}, t \in EventTimes}
DeletedStores == {<<>>, <<1>>}
LookAheadValues == {0, 1}

\* AddonCalendarFilter: every course, or one course.
Filters == {[filtered |-> FALSE, courseId |-> -1], [filtered |-> TRUE, courseId |-> 1]}

\* ------------------------------------------------------------------------
\* Upcoming events: functions
\* ------------------------------------------------------------------------
\* AddonCalendarHelper.formatEventData / formatOfflineEventData, as far as the
\* component reads the result.
formatEventData(e) ==
    [id |-> e.id, timestart |-> e.timestart, timeduration |-> e.timeduration,
     courseid |-> e.courseid, deleted |-> "undefined", offline |-> FALSE]
formatOfflineEventData(e) ==
    [id |-> e.id, timestart |-> e.timestart, timeduration |-> e.timeduration,
     courseid |-> e.courseid, deleted |-> "undefined", offline |-> TRUE]

Map(f(_), seq) == [i \in 1..Len(seq) |-> f(seq[i])]

\* The comparison of AddonCalendarHelper.sortEvents: by start, then by duration.
Before(a, b) ==
    \/ a.timestart < b.timestart
    \/ a.timestart = b.timestart /\ a.timeduration < b.timeduration

\* e inserted into the sorted seq after the elements that are not after it.
RECURSIVE Insert(_, _)
Insert(e, seq) ==
    IF seq = <<>> THEN <<e>>
    ELSE IF Before(e, Head(seq)) THEN <<e>> \o seq
         ELSE <<Head(seq)>> \o Insert(e, Tail(seq))

\* AddonCalendarHelper.sortEvents: a stable sort with that comparison.
RECURSIVE sortEvents(_)
sortEvents(seq) ==
    IF seq = <<>> THEN <<>>
    ELSE Insert(seq[Len(seq)], sortEvents(SubSeq(seq, 1, Len(seq) - 1)))

\* AddonCalendarHelper.getFilteredEvents: the events of the filter's course, in
\* the order of the list.
getFilteredEvents(evs, f) ==
    IF f.filtered THEN SelectSeq(evs, LAMBDA e : e.courseid = f.courseId) ELSE evs

Contains(seq, x) == \E i \in 1..Len(seq) : seq[i] = x
HasId(seq, id) == \E i \in 1..Len(seq) : seq[i].id = id

\* mergeEvents, lines 276-281: the online events marked as deleted or not.
MarkDeleted(online, deleted) ==
    IF deleted # <<>>
    THEN [i \in 1..Len(online) |->
            [online[i] EXCEPT !.deleted = IF Contains(deleted, online[i].id)
                                          THEN "true" ELSE "false"]]
    ELSE online

\* mergeEvents, lines 266-301.
mergeEventsUnsorted(online, offline, deleted, days, now) ==
    IF offline = <<>> /\ deleted = <<>> THEN online
    ELSE LET end == now + SECONDS_DAY * days
             kept == IF offline # <<>>
                     THEN SelectSeq(MarkDeleted(online, deleted),
                                    LAMBDA e : ~HasId(offline, e.id))
                     ELSE MarkDeleted(online, deleted)
             period == SelectSeq(offline, LAMBDA e :
                          (e.timestart >= now \/ e.timestart + e.timeduration >= now)
                          /\ e.timestart <= end)
         IN  kept \o period
mergeEvents(online, offline, deleted, days, now) ==
    IF offline = <<>> /\ deleted = <<>> THEN online
    ELSE LET end == now + SECONDS_DAY * days
             kept == IF offline # <<>>
                     THEN SelectSeq(MarkDeleted(online, deleted),
                                    LAMBDA e : ~HasId(offline, e.id))
                     ELSE MarkDeleted(online, deleted)
             period == SelectSeq(offline, LAMBDA e :
                          (e.timestart >= now \/ e.timestart + e.timeduration >= now)
                          /\ e.timestart <= end)
         IN  sortEvents(kept \o period)

FetchDataRequests == {"categories", "offline", "deleted", "lookAhead", "timeFormat"}
NoMerge == [online |-> <<>>, offline |-> <<>>, deleted |-> <<>>]
NoRefresh ==
    [called |-> FALSE, afterChange |-> FALSE, invalidated |-> {}, resolved |-> {},
     reset |-> FALSE, fetched |-> FALSE, categoriesRequested |-> FALSE]

CalInit ==
    /\ serverEvents \in ServerReplies(MaxOnline)
    /\ offlineStore \in OfflineStores
    /\ deletedStore \in DeletedStores
    /\ lookAheadPref \in LookAheadValues
    /\ filter \in Filters
    /\ filteredEvents = <<>>
    /\ loaded = FALSE
    /\ categoriesRetrieved = FALSE
    /\ events = <<>>
    /\ onlineEvents = <<>>
    /\ offlineEvents = <<>>
    /\ deletedEvents = <<>>
    /\ lookAhead = 0
    /\ fetchDataPc = "created"
    /\ promises = {}
    /\ rejected = FALSE
    /\ upcomingCalls = 0
    /\ formatCalls = 0
    /\ refreshPc = "idle"
    /\ invalidations = {}
    /\ fetchDataDone = "none"
    /\ retrievals = [started |-> FALSE, retrieved |-> FALSE, completed |-> FALSE]
    /\ lastMerge = NoMerge
    /\ lastRefresh = NoRefresh

\* ------------------------------------------------------------------------
\* Upcoming events: fetchData (lines 121-167)
\* ------------------------------------------------------------------------
calInputs == <<serverEvents, offlineStore, deletedStore, lookAheadPref>>

\* Lines 122-158: the requests are started; loadCategories returns at once when
\* the categories were retrieved already.
StartFetchData(retrieved) ==
    /\ fetchDataPc' = "waiting"
    /\ promises' = IF retrieved THEN FetchDataRequests \ {"categories"}
                   ELSE FetchDataRequests
    /\ rejected' = FALSE
    /\ fetchDataDone' = "none"

\* ngOnInit.
NgOnInit ==
    /\ fetchDataPc = "created"
    /\ StartFetchData(categoriesRetrieved)
    /\ UNCHANGED <<calInputs, filter, filteredEvents, loaded, categoriesRetrieved, events,
                   onlineEvents, offlineEvents, deletedEvents, lookAhead, upcomingCalls,
                   formatCalls, refreshPc, invalidations, retrievals, lastMerge,
                   lastRefresh>>
    /\ UNCHANGED otherThanCal

\* One request of fetchData resolved (lines 127-155, 208-215).
RequestResolved ==
    /\ \E p \in promises :
        /\ promises' = promises \ {p}
        /\ categoriesRetrieved' = IF p = "categories" THEN TRUE ELSE categoriesRetrieved
        /\ offlineEvents' = IF p = "offline"
                            THEN sortEvents(Map(formatOfflineEventData, offlineStore))
                            ELSE offlineEvents
        /\ deletedEvents' = IF p = "deleted" THEN deletedStore ELSE deletedEvents
        /\ lookAhead' = IF p = "lookAhead" THEN lookAheadPref ELSE lookAhead
    /\ UNCHANGED <<calInputs, filter, filteredEvents, loaded, events, onlineEvents,
                   fetchDataPc, rejected, upcomingCalls, formatCalls, refreshPc,
                   invalidations, fetchDataDone, retrievals, lastMerge, lastRefresh>>
    /\ UNCHANGED otherThanCal

\* One request of fetchData rejected; loadCategories ignores the error (line 216).
RequestRejected ==
    /\ \E p \in promises :
        /\ promises' = promises \ {p}
        /\ rejected' = IF p = "categories" THEN rejected ELSE TRUE
    /\ UNCHANGED <<calInputs, filter, filteredEvents, loaded, categoriesRetrieved, events,
                   onlineEvents, offlineEvents, deletedEvents, lookAhead, fetchDataPc,
                   upcomingCalls, formatCalls, refreshPc, invalidations, fetchDataDone,
                   retrievals, lastMerge, lastRefresh>>
    /\ UNCHANGED otherThanCal

\* Lines 158-166: Promise.all settled.  When it resolved, fetchEvents is called and
\* its promise dropped; loaded is set in the same turn.
FetchDataContinue ==
    /\ fetchDataPc = "waiting"
    /\ rejected \/ promises = {}
    /\ IF rejected
       THEN /\ fetchDataDone' = "error"
            /\ UNCHANGED <<upcomingCalls, retrievals>>
       ELSE /\ fetchDataDone' = "ok"
            /\ upcomingCalls' = upcomingCalls + 1
            /\ retrievals' = [retrievals EXCEPT !.started = TRUE]
    /\ loaded' = TRUE
    /\ fetchDataPc' = "idle"
    /\ UNCHANGED <<calInputs, filter, filteredEvents, categoriesRetrieved, events,
                   onlineEvents, offlineEvents, deletedEvents, lookAhead, promises,
                   rejected, formatCalls, refreshPc, invalidations, lastMerge,
                   lastRefresh>>
    /\ UNCHANGED otherThanCal

\* ------------------------------------------------------------------------
\* Upcoming events: fetchEvents (lines 174-194)
\* ------------------------------------------------------------------------
\* Lines 176-191: getUpcomingEvents resolved.
FetchEventsResolved ==
    /\ upcomingCalls > 0
    /\ \E now \in NowValues :
        LET online == Map(formatEventData, serverEvents)
        IN  /\ onlineEvents' = IF offlineEvents = <<>> /\ deletedEvents = <<>>
                               THEN online ELSE MarkDeleted(online, deletedEvents)
            /\ events' = mergeEvents(online, offlineEvents, deletedEvents, lookAhead, now)
            /\ lastMerge' = [online |-> online, offline |-> offlineEvents,
                             deleted |-> deletedEvents]
    /\ filteredEvents' = getFilteredEvents(events', filter)
    /\ upcomingCalls' = upcomingCalls - 1
    /\ formatCalls' = formatCalls + 1
    /\ retrievals' = [retrievals EXCEPT !.retrieved = TRUE]
    /\ UNCHANGED <<calInputs, filter, loaded, categoriesRetrieved, offlineEvents,
                   deletedEvents, lookAhead, fetchDataPc, promises, rejected, refreshPc,
                   invalidations, fetchDataDone, lastRefresh>>
    /\ UNCHANGED otherThanCal

\* Line 176: getUpcomingEvents rejected; nobody waits for the promise of fetchEvents.
FetchEventsRejected ==
    /\ upcomingCalls > 0
    /\ upcomingCalls' = upcomingCalls - 1
    /\ UNCHANGED <<calInputs, filter, filteredEvents, loaded, categoriesRetrieved, events,
                   onlineEvents, offlineEvents, deletedEvents, lookAhead, fetchDataPc,
                   promises, rejected, formatCalls, refreshPc, invalidations,
                   fetchDataDone, retrievals, lastMerge, lastRefresh>>
    /\ UNCHANGED otherThanCal

\* Line 193: the formatEventTime calls settled, fetchEvents is complete.
FetchEventsCompleted ==
    /\ formatCalls > 0
    /\ formatCalls' = formatCalls - 1
    /\ retrievals' = [retrievals EXCEPT !.completed = TRUE]
    /\ UNCHANGED <<calInputs, filter, filteredEvents, loaded, categoriesRetrieved, events,
                   onlineEvents, offlineEvents, deletedEvents, lookAhead, fetchDataPc,
                   promises, rejected, upcomingCalls, refreshPc, invalidations,
                   fetchDataDone, lastMerge, lastRefresh>>
    /\ UNCHANGED otherThanCal

\* ngDoCheck (lines 108-114) after the filter input changed: filterEvents.
NgDoCheck ==
    /\ \E f \in Filters \ {filter} :
        /\ filter' = f
        /\ filteredEvents' = getFilteredEvents(events, f)
    /\ UNCHANGED <<calInputs, loaded, categoriesRetrieved, events, onlineEvents,
                   offlineEvents, deletedEvents, lookAhead, fetchDataPc, promises,
                   rejected, upcomingCalls, formatCalls, refreshPc, invalidations,
                   fetchDataDone, retrievals, lastMerge, lastRefresh>>
    /\ UNCHANGED otherThanCal

\* ------------------------------------------------------------------------
\* Upcoming events: refreshData (lines 234-250)
\* ------------------------------------------------------------------------
\* Lines 237-243: the invalidations refreshData starts.
RefreshInvalidations(afterChange) ==
    (IF afterChange THEN {} ELSE {"upcomingEvents"})
        \cup {"categories", "lookAhead", "timeFormat"}

\* Lines 235-247.  refreshData is called once the component is initialised, while
\* fetchData is waiting for its requests or after it; one refresh runs at a time.
RefreshDataStart ==
    /\ refreshPc = "idle" /\ fetchDataPc \in {"idle", "waiting"}
    /\ invalidations = {}
    /\ upcomingCalls + formatCalls < MaxFetchEvents
    /\ categoriesRetrieved' = FALSE
    /\ \E afterChange \in BOOLEAN :
        /\ invalidations' = RefreshInvalidations(afterChange)
        /\ lastRefresh' = [NoRefresh EXCEPT !.called = TRUE,
                                            !.afterChange = afterChange,
                                            !.invalidated = invalidations',
                                            !.reset = ~categoriesRetrieved']
    /\ refreshPc' = "invalidating"
    /\ UNCHANGED <<calInputs, filter, filteredEvents, loaded, events, onlineEvents,
                   offlineEvents, deletedEvents, lookAhead, fetchDataPc, promises,
                   rejected, upcomingCalls, formatCalls, fetchDataDone, retrievals,
                   lastMerge>>
    /\ UNCHANGED otherThanCal

\* One invalidation resolved.
InvalidationResolved ==
    /\ \E p \in invalidations :
        /\ invalidations' = invalidations \ {p}
        /\ lastRefresh' = [lastRefresh EXCEPT !.resolved = lastRefresh.resolved \cup {p}]
    /\ UNCHANGED <<calInputs, filter, filteredEvents, loaded, categoriesRetrieved, events,
                   onlineEvents, offlineEvents, deletedEvents, lookAhead, fetchDataPc,
                   promises, rejected, upcomingCalls, formatCalls, refreshPc,
                   fetchDataDone, retrievals, lastMerge>>
    /\ UNCHANGED otherThanCal

\* One invalidation rejected: the Promise.all of line 247 is rejected and
\* refreshData ends there.
InvalidationRejected ==
    /\ \E p \in invalidations : invalidations' = invalidations \ {p}
    /\ refreshPc' = "idle"
    /\ UNCHANGED <<calInputs, filter, filteredEvents, loaded, categoriesRetrieved, events,
                   onlineEvents, offlineEvents, deletedEvents, lookAhead, fetchDataPc,
                   promises, rejected, upcomingCalls, formatCalls, fetchDataDone,
                   retrievals, lastMerge, lastRefresh>>
    /\ UNCHANGED otherThanCal

\* Line 249: every invalidation resolved, fetchData is called.  One fetchData
\* waits for its requests at a time.
RefreshDataContinue ==
    /\ refreshPc = "invalidating"
    /\ invalidations = {}
    /\ fetchDataPc = "idle" /\ promises = {}
    /\ refreshPc' = "idle"
    /\ lastRefresh' = [lastRefresh EXCEPT !.fetched = TRUE,
                                          !.categoriesRequested = ~categoriesRetrieved]
    /\ UNCHANGED categoriesRetrieved
    /\ StartFetchData(categoriesRetrieved)
    /\ UNCHANGED <<calInputs, filter, filteredEvents, loaded, events, onlineEvents,
                   offlineEvents, deletedEvents, lookAhead, upcomingCalls, formatCalls,
                   invalidations, retrievals, lastMerge>>
    /\ UNCHANGED otherThanCal

\* The component from its creation on, without refreshes.
CalNext ==
    \/ NgOnInit \/ RequestResolved \/ RequestRejected \/ FetchDataContinue
    \/ FetchEventsResolved \/ FetchEventsRejected \/ FetchEventsCompleted
    \/ NgDoCheck

\* The component with refreshes.
CalRefreshNext ==
    \/ NgOnInit \/ RequestResolved \/ RequestRejected \/ FetchDataContinue
    \/ FetchEventsResolved \/ FetchEventsRejected \/ FetchEventsCompleted
    \/ NgDoCheck
    \/ RefreshDataStart \/ InvalidationResolved \/ InvalidationRejected
    \/ RefreshDataContinue

\* ------------------------------------------------------------------------
\* Upcoming events: properties
\* ------------------------------------------------------------------------
\* The order of sortEvents: no event is before an earlier one of the list.
InSortOrder(seq) ==
    \A i, j \in 1..Len(seq) : i < j => ~Before(seq[j], seq[i])

\* C4 as stated: after every completed fetchEvents the events list, and so
\* filteredEvents, is in the order of sortEvents, whatever the online events,
\* the offline events and the deleted ids are.
C4_AlwaysSorted ==
    retrievals.completed => InSortOrder(events) /\ InSortOrder(filteredEvents)

\* C4 amended: after every completed fetchEvents the events list and
\* filteredEvents are in the order of sortEvents when the merge had an offline
\* event or a deleted id; when it had neither, events is the list of online
\* events in the order of the reply.
C4_SortedWhenMerged ==
    retrievals.completed =>
        /\ (lastMerge.offline # <<>> \/ lastMerge.deleted # <<>>) =>
               InSortOrder(events) /\ InSortOrder(filteredEvents)
        /\ (lastMerge.offline = <<>> /\ lastMerge.deleted = <<>>) =>
               events = lastMerge.online
        /\ filteredEvents = getFilteredEvents(events, filter)

\* C4 witness: a completed fetchEvents whose reply was out of order, merged with
\* an offline event of the period into a list of three events.
C4_Witness ==
    /\ retrievals.completed
    /\ lastMerge.offline # <<>>
    /\ ~InSortOrder(lastMerge.online)
    /\ Len(events) = 3

\* C5: once fetchData has ended with every preliminary request resolved and
\* loaded is true, the upcoming events have been retrieved, and events and
\* filteredEvents hold the merged and filtered reply; loaded is never true while
\* the first retrieval of upcoming events is pending.
C5_LoadedAfterRetrieval ==
    /\ (loaded /\ fetchDataDone = "ok") =>
          /\ retrievals.retrieved
          /\ lastMerge.online = Map(formatEventData, serverEvents)
          /\ filteredEvents = getFilteredEvents(events, filter)
    /\ loaded => ~(retrievals.started /\ ~retrievals.retrieved /\ upcomingCalls > 0)

\* C11: refreshData invalidates the upcoming events if and only if afterChange
\* is falsy, always invalidates categories, look-ahead and time format, resets
\* categoriesRetrieved so that the fetchData it starts requests the categories
\* again, and starts fetchData only after every invalidation has completed.
C11_RefreshInvalidatesThenFetches ==
    /\ lastRefresh.called =>
          /\ "upcomingEvents" \in lastRefresh.invalidated <=> ~lastRefresh.afterChange
          /\ {"categories", "lookAhead", "timeFormat"} \subseteq lastRefresh.invalidated
          /\ lastRefresh.reset
    /\ lastRefresh.fetched =>
          /\ lastRefresh.resolved = lastRefresh.invalidated
          /\ lastRefresh.categoriesRequested

\* ========================================================================
\* Site plugins helper (upcoming-events.ts, lines 380-969): login and logout
\* ========================================================================

\* ------------------------------------------------------------------------
\* Login and logout: inputs
\* ------------------------------------------------------------------------
MaxPlugins == 2   \* plugins in a reply of tool_mobile_get_plugins_supporting_mobile
MaxLogins == 2    \* fetches and loads of the LOGIN listener running at once

SiteIds == {"site1", "site2"}
Addons == {"mod_a", "mod_b"}

\* plugin.handlers: no handlers, an empty string, text that is no JSON, an object
\* without keys, an object with one handler and with two.
HandlersValues ==
    {"undefined", "", "{", "{}", "{\"h1\":{}}", "{\"h1\":{},\"h2\":{}}"}

\* The plugins of a reply; parsedHandlers is not part of the reply.
PluginValues ==
    [component : {"mod_x"}, addon : Addons, handlers : HandlersValues,
     parsedHandlers : {"undefined"}]

RECURSIVE SeqsUpTo(_, _)
SeqsUpTo(S, n) ==
    IF n = 0 THEN {<<>>}
    ELSE LET shorter == SeqsUpTo(S, n - 1)
         IN  shorter \cup {Append(q, x) : q \in {y \in shorter : Len(y) = n - 1}, x \in S}

\* 'sitePlugin_' + plugin.component + '_' + plugin.addon.
FeatureName(plugin) == <<"sitePlugin_", plugin.component, "_", plugin.addon>>

\* A site as getSite resolves it: whether getContent is available in it, and its
\* disabled features.
Sites(id) ==
    [id : {id}, getContentAvailable : BOOLEAN,
     disabledFeatures : {{}, {<<"sitePlugin_", "mod_x", "_", "mod_a">>}}]
NoSite == [id |-> "", getContentAvailable |-> FALSE, disabledFeatures |-> {}]

\* ------------------------------------------------------------------------
\* Login and logout: functions
\* ------------------------------------------------------------------------
\* textUtils.parseJSON(json, null, ...): the parsed value, null when the text
\* cannot be parsed.  A parsed object is the sequence of its keys.
parseJSON(json) ==
    IF json = "{}" THEN [null |-> FALSE, keys |-> <<>>]
    ELSE IF json = "{\"h1\":{}}" THEN [null |-> FALSE, keys |-> <<"h1">>]
    ELSE IF json = "{\"h1\":{},\"h2\":{}}" THEN [null |-> FALSE, keys |-> <<"h1", "h2">>]
    ELSE [null |-> TRUE, keys |-> <<>>]

\* isSitePluginEnabled, lines 592-604: the plugin as the call leaves it, and the
\* value returned.
ParsedBy(plugin, site) ==
    IF FeatureName(plugin) \notin site.disabledFeatures
       /\ plugin.handlers \notin {"undefined", ""}
       /\ plugin.parsedHandlers = "undefined"
    THEN [plugin EXCEPT !.parsedHandlers = plugin.handlers]
    ELSE plugin
isSitePluginEnabledIgnoresKeys(plugin, site) ==
    /\ FeatureName(plugin) \notin site.disabledFeatures
    /\ plugin.handlers \notin {"undefined", ""}
isSitePluginEnabled(plugin, site) ==
    /\ FeatureName(plugin) \notin site.disabledFeatures
    /\ plugin.handlers \notin {"undefined", ""}
    /\ ~parseJSON(ParsedBy(plugin, site).parsedHandlers).null
    /\ Len(parseJSON(ParsedBy(plugin, site).parsedHandlers).keys) > 0

\* fetchSitePlugins, lines 548-555: the enabled plugins of the reply, in its order.
EnabledPlugins(reply, site) ==
    SelectSeq(Map(LAMBDA p : ParsedBy(p, site), reply),
              LAMBDA p : isSitePluginEnabled(p, site))

\* The LOGIN listener, line 399: the plugins are loaded.
LoginLoadsAnySite(siteId, current, plugins) == Len(plugins) > 0
LoginLoads(siteId, current, plugins) == siteId = current /\ Len(plugins) > 0

\* The LOGOUT listener, line 411: the page is reloaded.
LogoutReloadsAlways(flag) == TRUE
LogoutReloads(flag) == flag

\* loadSitePlugin, lines 649-651: the handlers of a plugin, one registerHandler
\* call each.
HandlerNames(plugin) == parseJSON(plugin.parsedHandlers).keys

RECURSIVE CountHandlers(_)
CountHandlers(plugins) ==
    IF plugins = <<>> THEN 0
    ELSE Len(HandlerNames(Head(plugins))) + CountHandlers(Tail(plugins))

NoStep ==
    [kind |-> "none", siteId |-> "", current |-> "", site |-> NoSite, called |-> FALSE,
     reply |-> <<>>, plugins |-> <<>>, acted |-> FALSE, flag |-> FALSE,
     calledBefore |-> FALSE]

LoginInit ==
    /\ currentSiteId = ""
    /\ hasSitePluginsLoaded = FALSE
    /\ fetches = {}
    /\ loads = {}
    /\ triggered = {}
    /\ loadSitePluginCalled = FALSE
    /\ loadedSites = {}
    /\ lastStep = NoStep

\* ------------------------------------------------------------------------
\* Login and logout: the listeners (lines 394-415) and fetchSitePlugins (537-558)
\* ------------------------------------------------------------------------
\* A user logs in to a site: the LOGIN listener captures the site id and calls
\* fetchSitePlugins, which waits for getSite.
Login ==
    /\ currentSiteId = ""
    /\ Cardinality(fetches) + Cardinality(loads) < MaxLogins
    /\ \E s \in SiteIds :
        /\ currentSiteId' = s
        /\ fetches' = fetches \cup {[siteId |-> s, pc |-> "getSite", site |-> NoSite]}
    /\ lastStep' = NoStep
    /\ UNCHANGED <<hasSitePluginsLoaded, loads, triggered, loadSitePluginCalled,
                   loadedSites>>
    /\ UNCHANGED otherThanLogin

\* The user logs out: the LOGOUT listener reloads the page when site plugins were
\* loaded, which starts the app again.
Logout ==
    /\ currentSiteId # ""
    /\ currentSiteId' = ""
    /\ lastStep' = [NoStep EXCEPT !.kind = "logout",
                                  !.acted = LogoutReloads(hasSitePluginsLoaded),
                                  !.flag = hasSitePluginsLoaded,
                                  !.calledBefore = loadSitePluginCalled]
    /\ IF LogoutReloads(hasSitePluginsLoaded)
       THEN /\ hasSitePluginsLoaded' = FALSE
            /\ fetches' = {}
            /\ loads' = {}
            /\ triggered' = {}
            /\ loadSitePluginCalled' = FALSE
            /\ loadedSites' = {}
       ELSE UNCHANGED <<hasSitePluginsLoaded, fetches, loads, triggered,
                        loadSitePluginCalled, loadedSites>>
    /\ UNCHANGED otherThanLogin

\* Lines 540-544: getSite resolved.  Without getContent the fetch resolves with
\* no plugin, and the listener does nothing; otherwise the web service is called.
GetSiteResolved ==
    /\ \E f \in fetches : \E site \in Sites(f.siteId) :
        /\ f.pc = "getSite"
        /\ IF site.getContentAvailable
           THEN /\ fetches' = (fetches \ {f}) \cup {[f EXCEPT !.pc = "read", !.site = site]}
                /\ lastStep' = NoStep
           ELSE /\ fetches' = fetches \ {f}
                /\ lastStep' = [NoStep EXCEPT !.kind = "fetched", !.siteId = f.siteId,
                                              !.current = currentSiteId, !.site = site,
                                              !.acted = LoginLoads(f.siteId, currentSiteId, <<>>)]
    /\ UNCHANGED <<currentSiteId, hasSitePluginsLoaded, loads, triggered,
                   loadSitePluginCalled, loadedSites>>
    /\ UNCHANGED otherThanLogin

\* getSite or the web service rejected: fetchSitePlugins is rejected, and the
\* listener has no handler for that.
FetchRejected ==
    /\ \E f \in fetches : fetches' = fetches \ {f}
    /\ lastStep' = NoStep
    /\ UNCHANGED <<currentSiteId, hasSitePluginsLoaded, loads, triggered,
                   loadSitePluginCalled, loadedSites>>
    /\ UNCHANGED otherThanLogin

\* Lines 547-556 and 397-406: the web service resolved; the enabled plugins are
\* kept, and the listener loads them if the site is still the current one.
\* loadSitePlugins calls loadSitePlugin for each plugin at once (lines 629-654):
\* the flag is set and one registerHandler call is started for each handler.
ReadResolved ==
    /\ \E f \in fetches : \E reply \in SeqsUpTo(PluginValues, MaxPlugins) :
        /\ f.pc = "read"
        /\ LET plugins == EnabledPlugins(reply, f.site)
               loading == LoginLoads(f.siteId, currentSiteId, plugins)
           IN  /\ fetches' = fetches \ {f}
               /\ lastStep' = [NoStep EXCEPT !.kind = "fetched", !.siteId = f.siteId,
                                             !.current = currentSiteId, !.site = f.site,
                                             !.called = TRUE, !.reply = reply,
                                             !.plugins = plugins, !.acted = loading]
               /\ IF loading
                  THEN /\ loads' = loads \cup {[siteId |-> f.siteId,
                                                 pending |-> CountHandlers(plugins)]}
                       /\ hasSitePluginsLoaded' = TRUE
                       /\ loadSitePluginCalled' = TRUE
                       /\ loadedSites' = loadedSites \cup {f.siteId}
                  ELSE UNCHANGED <<loads, hasSitePluginsLoaded, loadSitePluginCalled,
                                   loadedSites>>
    /\ UNCHANGED <<currentSiteId, triggered>>
    /\ UNCHANGED otherThanLogin

\* One registerHandler call of a load settled; it never rejects (line 776).
HandlerSettled ==
    /\ \E l \in loads :
        /\ l.pending > 0
        /\ loads' = (loads \ {l}) \cup {[l EXCEPT !.pending = l.pending - 1]}
    /\ lastStep' = NoStep
    /\ UNCHANGED <<currentSiteId, hasSitePluginsLoaded, fetches, triggered,
                   loadSitePluginCalled, loadedSites>>
    /\ UNCHANGED otherThanLogin

\* Lines 401-403: every registerHandler call of a load settled, the event is
\* triggered for the captured site id.
PluginsLoaded ==
    /\ \E l \in loads :
        /\ l.pending = 0
        /\ loads' = loads \ {l}
        /\ triggered' = triggered \cup {l.siteId}
    /\ lastStep' = NoStep
    /\ UNCHANGED <<currentSiteId, hasSitePluginsLoaded, fetches, loadSitePluginCalled,
                   loadedSites>>
    /\ UNCHANGED otherThanLogin

LoginNext ==
    \/ Login \/ Logout \/ GetSiteResolved \/ FetchRejected \/ ReadResolved
    \/ HandlerSettled \/ PluginsLoaded

\* ------------------------------------------------------------------------
\* Login and logout: properties
\* ------------------------------------------------------------------------
\* C2: the LOGIN listener calls loadSitePlugins, and later triggers
\* SITE_PLUGINS_LOADED for the captured site id, only if the current site id at
\* the moment the fetch resolves equals the captured one and the fetched list is
\* not empty; otherwise nothing is loaded and no event is triggered.
C2_LoadsOnlySameSite ==
    /\ lastStep.kind = "fetched" =>
          (lastStep.acted <=> (lastStep.siteId = lastStep.current
                               /\ lastStep.plugins # <<>>))
    /\ lastStep.kind = "fetched" /\ ~lastStep.acted =>
          \A l \in loads : l.siteId \in loadedSites
    /\ \A l \in loads : l.siteId \in loadedSites
    /\ triggered \subseteq loadedSites
    /\ (loadedSites = {}) => (~hasSitePluginsLoaded /\ loads = {} /\ triggered = {})

\* C2 witness: a fetch that resolved with plugins after the user had moved to
\* another site; nothing was loaded.
C2_Witness ==
    /\ lastStep.kind = "fetched"
    /\ lastStep.plugins # <<>>
    /\ lastStep.current \in SiteIds \ {lastStep.siteId}
    /\ ~lastStep.acted /\ loadedSites = {}

\* The plugins of a reply the claim C6 names: not feature-disabled, with a
\* handlers string whose JSON is an object with at least one key.
NamedByC6(p, site) ==
    /\ <<"sitePlugin_", p.component, "_", p.addon>> \notin site.disabledFeatures
    /\ p.handlers \in {"{\"h1\":{}}", "{\"h1\":{},\"h2\":{}}"}
Unparsed(p) == [p EXCEPT !.parsedHandlers = "undefined"]

\* C6: fetchSitePlugins resolves with exactly the plugins of the reply, in the
\* order of the reply, that are not feature-disabled for the site, have a
\* handlers string, and whose parsed handlers have at least one key; when
\* getContent is not available it resolves with the empty list without calling
\* the web service.
C6_FetchKeepsEnabledPlugins ==
    lastStep.kind = "fetched" =>
        /\ Map(Unparsed, lastStep.plugins)
              = SelectSeq(lastStep.reply, LAMBDA p : NamedByC6(p, lastStep.site))
        /\ lastStep.called <=> lastStep.site.getContentAvailable
        /\ ~lastStep.site.getContentAvailable => lastStep.plugins = <<>>

\* C6 witness: a reply of two plugins for the same add-on names, the first one
\* kept and the second one dropped for its handlers.
C6_Witness ==
    /\ lastStep.kind = "fetched" /\ lastStep.called
    /\ Len(lastStep.reply) = 2 /\ Len(lastStep.plugins) = 1
    /\ lastStep.plugins[1].addon = lastStep.reply[1].addon
    /\ lastStep.reply[2].handlers = "{}"

\* C7: on LOGOUT the page is reloaded if and only if hasSitePluginsLoaded is
\* true, that is if and only if loadSitePlugin was called since the app started.
C7_ReloadIffLoaded ==
    /\ lastStep.kind = "logout" =>
          /\ lastStep.acted <=> lastStep.flag
          /\ lastStep.acted <=> lastStep.calledBefore
    /\ hasSitePluginsLoaded <=> loadSitePluginCalled

\* C7 witness: a logout after site plugins were loaded, which reloaded the page.
C7_Witness ==
    lastStep.kind = "logout" /\ lastStep.acted /\ lastStep.calledBefore

\* ========================================================================
\* Site plugins helper: registerHandler (lines 709-779) and the six
\* register...Handler methods (lines 790-969)
\* ========================================================================

MaxRegisterCalls == 1

\* The delegates injected in the helper (constructor, lines 383-391).
DelegateFields ==
    {"mainMenuDelegate", "moduleDelegate", "prefetchDelegate", "userDelegate",
     "courseOptionsDelegate", "courseFormatDelegate", "profileFieldDelegate"}

\* handlerSchema.delegate: the six names of the switch, another name, none.
DelegateValues ==
    {"CoreMainMenuDelegate", "CoreCourseModuleDelegate", "CoreUserDelegate",
     "CoreCourseOptionsDelegate", "CoreCourseFormatDelegate",
     "CoreUserProfileFieldDelegate", "AddonMessageOutputDelegate", "undefined"}

\* plugin.component, as the pieces String.replace looks for.
ComponentValues == {<<"mod_", "certificate">>, <<"format_">>}
RegPluginValues == [component : ComponentValues, addon : {"mod_a"}]
HandlerNameValues == {"h1"}

\* handlerSchema: displaydata and styles are present or not, offlinefunctions is
\* absent, an object without keys or an object with one key.
SchemaValues ==
    [delegate : DelegateValues, displaydata : BOOLEAN, method : {"undefined", "view"},
     init : {"undefined", "init"}, offlinefunctions : {"undefined", "{}", "{\"f\":[]}"},
     styles : BOOLEAN]

\* A getContent result: whether it has javascript, and the result of running it.
EmptyResult == [javascript |-> FALSE, jsResult |-> FALSE]

\* sitePluginsProvider.getHandlerUniqueName(plugin, handlerName).
getHandlerUniqueName(plugin, handlerName) == <<plugin.addon, "_", handlerName>>

\* String.replace(piece, ''): the first occurrence of the piece is removed.
Replace(component, piece) ==
    IF \E i \in 1..Len(component) : component[i] = piece
    THEN LET i == CHOOSE k \in 1..Len(component) :
                      /\ component[k] = piece
                      /\ \A j \in 1..(k - 1) : component[j] # piece
         IN  SubSeq(component, 1, i - 1) \o SubSeq(component, i + 1, Len(component))
    ELSE component

\* Object.keys(handlerSchema.offlinefunctions).length of line 883.
HasOfflineFunctions(schema) == schema.offlinefunctions = "{\"f\":[]}"

Registration(field, name) == [field |-> field, name |-> name]
NoName == <<>>
\* What a register...Handler method does: the registrations it makes, the name it
\* returns (NoName for undefined) and whether it waits for executeMethodAndJS.
Registered(regs, name) == [regs |-> regs, uniqueName |-> name, waits |-> FALSE]
Ignored == Registered({}, NoName)


\* ------------------------------------------------------------------------
\* registerHandler: the register...Handler methods
\* ------------------------------------------------------------------------
\* Lines 790-799.
registerCourseFormatHandler(plugin, handlerName, schema) ==
    Registered({Registration("courseFormatDelegate", getHandlerUniqueName(plugin, handlerName))},
               Replace(plugin.component, "format_"))

\* Lines 810-828.
registerCourseOptionHandler(plugin, handlerName, schema) ==
    IF ~schema.displaydata THEN Ignored
    ELSE Registered({Registration("courseOptionsDelegate",
                                  getHandlerUniqueName(plugin, handlerName))},
                    getHandlerUniqueName(plugin, handlerName))

\* The main menu handler is registered whether it has displaydata or not.
registerMainMenuHandlerAnyData(plugin, handlerName, schema) ==
    Registered({Registration("mainMenuDelegate",
                             getHandlerUniqueName(plugin, handlerName))},
               getHandlerUniqueName(plugin, handlerName))

\* Lines 839-857.
registerMainMenuHandler(plugin, handlerName, schema) ==
    IF ~schema.displaydata THEN Ignored
    ELSE Registered({Registration("mainMenuDelegate",
                                  getHandlerUniqueName(plugin, handlerName))},
                    getHandlerUniqueName(plugin, handlerName))

\* Lines 868-891.
registerModuleHandler(plugin, handlerName, schema) ==
    IF ~schema.displaydata THEN Ignored
    ELSE LET uniqueName == getHandlerUniqueName(plugin, handlerName)
         IN  Registered({Registration("moduleDelegate", uniqueName)}
                          \cup IF HasOfflineFunctions(schema)
                               THEN {Registration("prefetchDelegate", uniqueName)}
                               ELSE {},
                        Replace(plugin.component, "mod_"))

\* Lines 902-920.
registerUserProfileHandler(plugin, handlerName, schema) ==
    IF ~schema.displaydata THEN Ignored
    ELSE Registered({Registration("userDelegate",
                                  getHandlerUniqueName(plugin, handlerName))},
                    getHandlerUniqueName(plugin, handlerName))

\* Lines 931-942: the profile field handler is registered when its method resolved.
registerUserProfileFieldHandler(plugin, handlerName, schema) ==
    IF schema.method = "undefined" THEN Ignored
    ELSE [regs |-> {}, uniqueName |-> NoName, waits |-> TRUE]

\* Lines 942-964: the method resolved.
registerUserProfileFieldHandlerOnResult(plugin, handlerName, schema) ==
    Registered({Registration("profileFieldDelegate",
                             getHandlerUniqueName(plugin, handlerName))},
               Replace(plugin.component, "profilefield_"))

\* The switch with two cases exchanged.
registerHandlerSwitchCrossed(plugin, handlerName, schema) ==
    CASE schema.delegate = "CoreMainMenuDelegate" ->
            registerUserProfileHandler(plugin, handlerName, schema)
      [] schema.delegate = "CoreCourseModuleDelegate" ->
            registerModuleHandler(plugin, handlerName, schema)
      [] schema.delegate = "CoreUserDelegate" ->
            registerMainMenuHandler(plugin, handlerName, schema)
      [] schema.delegate = "CoreCourseOptionsDelegate" ->
            registerCourseOptionHandler(plugin, handlerName, schema)
      [] schema.delegate = "CoreCourseFormatDelegate" ->
            registerCourseFormatHandler(plugin, handlerName, schema)
      [] schema.delegate = "CoreUserProfileFieldDelegate" ->
            registerUserProfileFieldHandler(plugin, handlerName, schema)
      [] OTHER -> Ignored

\* Lines 733-761: the switch on handlerSchema.delegate.
registerHandlerSwitch(plugin, handlerName, schema) ==
    CASE schema.delegate = "CoreMainMenuDelegate" ->
            registerMainMenuHandler(plugin, handlerName, schema)
      [] schema.delegate = "CoreCourseModuleDelegate" ->
            registerModuleHandler(plugin, handlerName, schema)
      [] schema.delegate = "CoreUserDelegate" ->
            registerUserProfileHandler(plugin, handlerName, schema)
      [] schema.delegate = "CoreCourseOptionsDelegate" ->
            registerCourseOptionHandler(plugin, handlerName, schema)
      [] schema.delegate = "CoreCourseFormatDelegate" ->
            registerCourseFormatHandler(plugin, handlerName, schema)
      [] schema.delegate = "CoreUserProfileFieldDelegate" ->
            registerUserProfileFieldHandler(plugin, handlerName, schema)
      [] OTHER -> Ignored

\* The javascript is executed whatever the current site is.
executeMethodAndJSIgnoresSite(result, siteId, current) ==
    IF ~result.javascript
    THEN result
    ELSE [result EXCEPT !.jsResult = TRUE]

\* Lines 509-527: what executeMethodAndJS makes of a getContent result, for the
\* site id it captured and the current one.
executeMethodAndJSOnResult(result, siteId, current) ==
    IF ~result.javascript \/ current # siteId
    THEN result
    ELSE [result EXCEPT !.jsResult = TRUE]

\* Only the init method is waited for.
PromisesSettledInitOnly(styles, init) == init = "resolved"

\* Lines 716-727: Promise.all of the two promises resolved.  The promise of the
\* styles catches its rejection, the promise of the init method does not.
PromisesSettled(styles, init) ==
    styles \in {"resolved", "rejected"} /\ init = "resolved"

\* The delegates after some registrations.
Register(regs) ==
    [d \in DelegateFields |-> delegates[d] \cup {r.name : r \in {x \in regs : x.field = d}}]

\* Lines 763-773: the name returned is stored if it is not empty.
StoreHandler(done) ==
    IF done.uniqueName # NoName
    THEN sitePluginHandlers \cup {done.uniqueName}
    ELSE sitePluginHandlers

IdleReg ==
    [pc |-> "idle", plugin |-> [component |-> <<>>, addon |-> ""], handlerName |-> "",
     schema |-> [delegate |-> "undefined", displaydata |-> FALSE, method |-> "undefined",
                 init |-> "undefined", offlinefunctions |-> "undefined",
                 styles |-> FALSE],
     siteId |-> "", styles |-> "none", cssCode |-> "", init |-> "none",
     initSiteId |-> "", result |-> EmptyResult, method |-> "none",
     methodSiteId |-> "", methodResult |-> EmptyResult,
     regs |-> {}, stored |-> NoName, styleLoaded |-> FALSE]

RegInit ==
    /\ delegates = [d \in DelegateFields |-> {}]
    /\ sitePluginHandlers = {}
    /\ reg = IdleReg
    /\ regCalls = 0


\* ------------------------------------------------------------------------
\* registerHandler: actions
\* ------------------------------------------------------------------------
\* Lines 709-726: the site id is captured, downloadStyles and executeHandlerInit
\* are started.  Without an init method executeHandlerInit is resolved at once
\* (lines 485-487); otherwise executeMethodAndJS captures the site id (line 502).
RegisterHandlerStart ==
    /\ reg.pc \in {"idle", "done"}
    /\ regCalls < MaxRegisterCalls
    /\ regCalls' = regCalls + 1
    /\ \E plugin \in RegPluginValues, handlerName \in HandlerNameValues,
          schema \in SchemaValues :
        reg' = [IdleReg EXCEPT !.pc = "waiting", !.plugin = plugin,
                               !.handlerName = handlerName, !.schema = schema,
                               !.siteId = currentSiteId, !.styles = "pending",
                               !.init = IF schema.init = "undefined"
                                        THEN "resolved" ELSE "pending",
                               !.initSiteId = currentSiteId]
    /\ UNCHANGED <<delegates, sitePluginHandlers, currentSiteId>>
    /\ UNCHANGED otherThanRegister

\* Lines 717-718: downloadStyles resolved with the CSS code, which is empty when
\* the handler has no styles.
StylesResolved ==
    /\ reg.pc = "waiting" /\ reg.styles = "pending"
    /\ \E code \in (IF reg.schema.styles THEN {"", "css"} ELSE {""}) :
        reg' = [reg EXCEPT !.styles = "resolved", !.cssCode = code]
    /\ UNCHANGED <<delegates, sitePluginHandlers, regCalls, currentSiteId>>
    /\ UNCHANGED otherThanRegister

\* Lines 719-721: downloadStyles rejected, the error is logged.
StylesRejected ==
    /\ reg.pc = "waiting" /\ reg.styles = "pending"
    /\ reg' = [reg EXCEPT !.styles = "rejected"]
    /\ UNCHANGED <<delegates, sitePluginHandlers, regCalls, currentSiteId>>
    /\ UNCHANGED otherThanRegister

\* Lines 723-725 and 508-528: getContent resolved for the init method.
InitResolved ==
    /\ reg.pc = "waiting" /\ reg.init = "pending"
    /\ \E javascript \in BOOLEAN :
        reg' = [reg EXCEPT !.init = "resolved",
                           !.result = executeMethodAndJSOnResult(
                                          [javascript |-> javascript, jsResult |-> FALSE],
                                          reg.initSiteId, currentSiteId)]
    /\ UNCHANGED <<delegates, sitePluginHandlers, regCalls, currentSiteId>>
    /\ UNCHANGED otherThanRegister

\* Lines 776-778: the init method rejected, Promise.all rejects and the error is
\* logged.
InitRejected ==
    /\ reg.pc = "waiting" /\ reg.init = "pending"
    /\ reg' = [reg EXCEPT !.pc = "done", !.init = "rejected"]
    /\ UNCHANGED <<delegates, sitePluginHandlers, regCalls, currentSiteId>>
    /\ UNCHANGED otherThanRegister

\* Lines 727-774: styles and init settled.  The styles are loaded if there is
\* CSS code, the switch is run, and the name returned is stored.
RegisterHandlerContinue ==
    /\ reg.pc = "waiting"
    /\ PromisesSettled(reg.styles, reg.init)
    /\ LET done == registerHandlerSwitch(reg.plugin, reg.handlerName, reg.schema)
       IN  IF done.waits
           THEN /\ reg' = [reg EXCEPT !.pc = "method", !.method = "pending",
                                      !.methodSiteId = currentSiteId,
                                      !.styleLoaded = (reg.cssCode # "")]
                /\ UNCHANGED <<delegates, sitePluginHandlers>>
           ELSE /\ reg' = [reg EXCEPT !.pc = "done", !.regs = done.regs,
                                      !.stored = done.uniqueName,
                                      !.styleLoaded = (reg.cssCode # "")]
                /\ delegates' = Register(done.regs)
                /\ sitePluginHandlers' = StoreHandler(done)
    /\ UNCHANGED <<regCalls, currentSiteId>>
    /\ UNCHANGED otherThanRegister

\* Lines 942-964 and 763-773: the method of a profile field handler resolved.
MethodResolved ==
    /\ reg.pc = "method"
    /\ \E javascript \in BOOLEAN :
        LET done == registerUserProfileFieldHandlerOnResult(reg.plugin, reg.handlerName,
                                                            reg.schema)
        IN  /\ reg' = [reg EXCEPT !.pc = "done", !.method = "resolved",
                                  !.methodResult = executeMethodAndJSOnResult(
                                          [javascript |-> javascript, jsResult |-> FALSE],
                                          reg.methodSiteId, currentSiteId),
                                  !.regs = done.regs, !.stored = done.uniqueName]
            /\ delegates' = Register(done.regs)
            /\ sitePluginHandlers' = StoreHandler(done)
    /\ UNCHANGED <<regCalls, currentSiteId>>
    /\ UNCHANGED otherThanRegister

\* Lines 965-967: the method rejected, the error is logged and no name returned.
MethodRejected ==
    /\ reg.pc = "method"
    /\ reg' = [reg EXCEPT !.pc = "done", !.method = "rejected"]
    /\ UNCHANGED <<delegates, sitePluginHandlers, regCalls, currentSiteId>>
    /\ UNCHANGED otherThanRegister

\* The user logs out, or logs in to another site.
SiteChanged ==
    \E s \in (SiteIds \cup {""}) \ {currentSiteId} : currentSiteId' = s

\* The site changes while registerHandler runs.
RegSiteChanged == SiteChanged /\ UNCHANGED regVars /\ UNCHANGED otherThanRegister

RegNext ==
    \/ RegisterHandlerStart \/ StylesResolved \/ StylesRejected \/ InitResolved
    \/ InitRejected \/ RegisterHandlerContinue \/ MethodResolved \/ MethodRejected
    \/ RegSiteChanged

\* ------------------------------------------------------------------------
\* registerHandler: properties
\* ------------------------------------------------------------------------
\* The delegate each name of the switch stands for.
DelegateOf(name) ==
    CASE name = "CoreMainMenuDelegate" -> "mainMenuDelegate"
      [] name = "CoreCourseModuleDelegate" -> "moduleDelegate"
      [] name = "CoreUserDelegate" -> "userDelegate"
      [] name = "CoreCourseOptionsDelegate" -> "courseOptionsDelegate"
      [] name = "CoreCourseFormatDelegate" -> "courseFormatDelegate"
      [] name = "CoreUserProfileFieldDelegate" -> "profileFieldDelegate"
      [] OTHER -> "none"
SixDelegates ==
    {"CoreMainMenuDelegate", "CoreCourseModuleDelegate", "CoreUserDelegate",
     "CoreCourseOptionsDelegate", "CoreCourseFormatDelegate",
     "CoreUserProfileFieldDelegate"}
\* The delegates where the call in progress registered its handler.
UsedDelegates == {r.field : r \in reg.regs}
\* The delegates a handler may be registered in: its own one, and the prefetch
\* delegate for a module.
OwnDelegates(name) ==
    {DelegateOf(name)} \cup IF name = "CoreCourseModuleDelegate"
                            THEN {"prefetchDelegate"} ELSE {}
\* The data a handler needs: displaydata, or the method for a profile field.
HasRequiredData(schema) ==
    CASE schema.delegate = "CoreUserProfileFieldDelegate" -> schema.method # "undefined"
      [] schema.delegate = "CoreCourseFormatDelegate" -> TRUE
      [] OTHER -> schema.displaydata

\* C1 as stated: once registerHandler is done, a handler of one of the six
\* delegate names is registered in the corresponding delegate and in no other
\* one (the prefetch delegate excepted for a module); for any other name nothing
\* is registered and setSitePluginHandler is not called.
C1_RegisteredInOwnDelegate ==
    reg.pc = "done" =>
        IF reg.schema.delegate \in SixDelegates
        THEN /\ DelegateOf(reg.schema.delegate) \in UsedDelegates
             /\ UsedDelegates \subseteq OwnDelegates(reg.schema.delegate)
        ELSE UsedDelegates = {} /\ reg.stored = NoName

\* C1 amended: whatever registerHandler registers goes to the delegate of the
\* handler's delegate name and to no other one (the prefetch delegate excepted
\* for a module); the handler is registered there if and only if the init
\* method did not fail, the handler has the data it needs and, for a profile
\* field, its method did not fail; for any other name nothing is registered and
\* setSitePluginHandler is not called.
C1_DispatchOnDelegate ==
    /\ reg.pc # "idle" /\ reg.schema.delegate \in SixDelegates =>
          UsedDelegates \subseteq OwnDelegates(reg.schema.delegate)
    /\ reg.pc # "idle" /\ reg.schema.delegate \notin SixDelegates =>
          UsedDelegates = {} /\ reg.stored = NoName
    /\ \A r \in reg.regs : r.name \in delegates[r.field]
    /\ reg.stored # NoName => reg.stored \in sitePluginHandlers
    /\ reg.pc = "done" /\ reg.schema.delegate \in SixDelegates =>
          (DelegateOf(reg.schema.delegate) \in UsedDelegates
             <=> /\ reg.init = "resolved"
                 /\ HasRequiredData(reg.schema)
                 /\ reg.method # "rejected")

\* C12: registerHandler registers nothing and stores nothing before
\* downloadStyles has settled and executeHandlerInit has resolved; a handler
\* whose styles download failed is registered all the same, without styles; a
\* handler whose init call failed is not registered and nothing is stored.
C12_WaitsForStylesAndInit ==
    /\ (reg.regs # {} \/ reg.stored # NoName) =>
          reg.styles \in {"resolved", "rejected"} /\ reg.init = "resolved"
    /\ reg.pc \in {"method", "done"} /\ reg.init # "rejected" =>
          reg.styles \in {"resolved", "rejected"} /\ reg.init = "resolved"
    /\ reg.pc = "done" /\ reg.styles = "rejected" /\ reg.init = "resolved"
         /\ reg.schema.delegate \in SixDelegates /\ HasRequiredData(reg.schema)
         /\ reg.method # "rejected" =>
          DelegateOf(reg.schema.delegate) \in UsedDelegates /\ ~reg.styleLoaded
    /\ reg.styleLoaded => reg.styles = "resolved" /\ reg.cssCode # ""
    /\ reg.init = "rejected" => reg.regs = {} /\ reg.stored = NoName

\* C12 witness: a main menu handler with an init method whose styles download
\* failed: it is registered and stored, without styles.
C12_Witness ==
    /\ reg.pc = "done" /\ reg.styles = "rejected"
    /\ reg.schema.delegate = "CoreMainMenuDelegate" /\ reg.schema.init = "init"
    /\ reg.schema.styles
    /\ UsedDelegates = {"mainMenuDelegate"} /\ reg.stored \in sitePluginHandlers
    /\ ~reg.styleLoaded

\* C13: when getContent resolves for the init method or for the method of a
\* profile field handler, the javascript is not executed if the result has none
\* or if the current site id differs from the one captured when the call
\* started: the result is then returned without jsResult.
C13_NoJavascriptOnOtherSite ==
    [][/\ reg.init = "pending" /\ reg'.init = "resolved"
          /\ (~reg'.result.javascript \/ currentSiteId # reg.initSiteId) =>
            reg'.result = [javascript |-> reg'.result.javascript, jsResult |-> FALSE]
       /\ reg.method = "pending" /\ reg'.method = "resolved"
          /\ (~reg'.methodResult.javascript \/ currentSiteId # reg.methodSiteId) =>
            reg'.methodResult =
                [javascript |-> reg'.methodResult.javascript, jsResult |-> FALSE]]_vars

\* C13 witness: the init method returned javascript after the site had changed,
\* and the javascript was not executed.
C13_Witness ==
    /\ reg.schema.init = "init" /\ reg.init = "resolved"
    /\ reg.result.javascript /\ ~reg.result.jsResult
    /\ currentSiteId # reg.initSiteId

\* C14: a main menu, course module, user profile or course options handler
\* without displaydata, and a profile field handler without method, is
\* registered in no delegate, its method is not called, and no entry is stored
\* for it with setSitePluginHandler.
C14_IgnoredWithoutRequiredData ==
    /\ reg.schema.delegate \in SixDelegates \ {"CoreCourseFormatDelegate"}
    /\ ~HasRequiredData(reg.schema)
    => /\ reg.regs = {} /\ reg.stored = NoName
       /\ reg.method = "none"

\* C14 witness: registerHandler is done for a main menu handler without
\* displaydata whose styles and init method resolved, and nothing is registered.
C14_Witness ==
    /\ reg.pc = "done" /\ reg.schema.delegate = "CoreMainMenuDelegate"
    /\ ~reg.schema.displaydata /\ reg.schema.method = "view"
    /\ reg.styles = "resolved" /\ reg.init = "resolved"
    /\ UsedDelegates = {} /\ reg.stored = NoName

\* C1 witness: a finished call for each kind of handler: a module registered
\* with its prefetch handler, or a user handler registered in the user delegate
\* only.
C1_Witness ==
    /\ reg.pc = "done"
    /\ \/ /\ reg.schema.delegate = "CoreCourseModuleDelegate"
          /\ UsedDelegates = {"moduleDelegate", "prefetchDelegate"}
       \/ /\ reg.schema.delegate = "CoreUserProfileFieldDelegate"
          /\ UsedDelegates = {"profileFieldDelegate"}
          /\ reg.stored \in sitePluginHandlers


\* ========================================================================
\* Site plugins helper: downloadStyles (lines 427-474)
\* ========================================================================

MaxDownloadCalls == 1

\* A URL is the sequence of its pieces; an absolute one starts with an origin.
Origins == {"https://site1", "https://site2"}
SiteURL(id) == IF id = "site1" THEN "https://site1" ELSE "https://site2"
NoUrl == <<>>
CachedUrlValues ==
    {<<"https://site1", "a.css">>, <<"https://site1", "b.css">>,
     <<"https://site2", "a.css">>}
\* handlerSchema.styles: absent, or with a URL that is absent, relative or absolute.
NoStyles == [defined |-> FALSE, url |-> NoUrl]
StylesValues ==
    {NoStyles} \cup [defined : {TRUE},
                     url : {NoUrl, <<"a.css">>, <<"https://site1", "a.css">>,
                            <<"https://site1", "b.css">>}]
\* The siteId argument: a site, or undefined for the current site.
SiteIdArgs == SiteIds \cup {"undefined"}
\* response.text(): text, no text, or something that is not a string.
TextValues == {"css", "", "notAString"}

\* urlUtils.isAbsoluteURL(url).
isAbsoluteURL(url) == url # NoUrl /\ Head(url) \in Origins
\* textUtils.concatenatePaths(siteUrl, url).
concatenatePaths(siteUrl, url) == <<siteUrl>> \o url

\* Lines 431-434: the absolute URL of the styles, NoUrl when there is none.
AbsoluteStylesUrl(styles, siteUrl) ==
    LET url == IF styles.defined THEN styles.url ELSE NoUrl
    IN  IF url # NoUrl /\ ~isAbsoluteURL(url)
        THEN concatenatePaths(siteUrl, url)
        ELSE url

\* Every file listed is removed.
ShouldRemoveAny(fileUrl, url) == TRUE

\* Line 442: a file is removed when it is not the current one.
ShouldRemove(fileUrl, url) == fileUrl # url

IdleDownload ==
    [pc |-> "idle", styles |-> NoStyles, siteIdArg |-> "undefined", siteId |-> "",
     url |-> NoUrl, listing |-> "none", listed |-> {}, removeRequested |-> {},
     download |-> "none", settled |-> "none", result |-> ""]

StylesInit ==
    /\ filepool \in SUBSET CachedUrlValues
    /\ removals = {}
    /\ dl = IdleDownload
    /\ dlCalls = 0

\* ------------------------------------------------------------------------
\* downloadStyles: actions
\* ------------------------------------------------------------------------
\* Line 429: getSite is called.
DownloadStylesStart ==
    /\ dl.pc \in {"idle", "done"} /\ dl.listing # "pending"
    /\ dlCalls < MaxDownloadCalls
    /\ dlCalls' = dlCalls + 1
    /\ \E styles \in StylesValues, siteIdArg \in SiteIdArgs :
        dl' = [IdleDownload EXCEPT !.pc = "getSite", !.styles = styles,
                                   !.siteIdArg = siteIdArg]
    /\ UNCHANGED <<filepool, removals, currentSiteId>>
    /\ UNCHANGED otherThanStyles

\* Lines 429-455: getSite resolved.  The URL is made absolute, the files of the
\* component are asked for without waiting, and without a URL the result is ''.
StylesSiteResolved ==
    /\ dl.pc = "getSite"
    /\ dl.siteIdArg = "undefined" => currentSiteId # ""
    /\ LET siteId == IF dl.siteIdArg = "undefined" THEN currentSiteId ELSE dl.siteIdArg
           url == AbsoluteStylesUrl(dl.styles, SiteURL(siteId))
       IN  dl' = IF url = NoUrl
                 THEN [dl EXCEPT !.pc = "done", !.siteId = siteId, !.url = url,
                                 !.listing = "pending", !.settled = "resolved",
                                 !.result = ""]
                 ELSE [dl EXCEPT !.pc = "download", !.siteId = siteId, !.url = url,
                                 !.listing = "pending", !.download = "pending"]
    /\ UNCHANGED <<filepool, removals, dlCalls, currentSiteId>>
    /\ UNCHANGED otherThanStyles

\* getSite rejected: downloadStyles is rejected.
StylesSiteRejected ==
    /\ dl.pc = "getSite"
    /\ dl' = [dl EXCEPT !.pc = "done", !.settled = "rejected"]
    /\ UNCHANGED <<filepool, removals, dlCalls, currentSiteId>>
    /\ UNCHANGED otherThanStyles

\* Lines 440-449: the files of the component are listed, and removeFileByUrl is
\* called for each one that is not the current one.
ListingResolved ==
    /\ dl.listing = "pending"
    /\ LET toRemove == {f \in filepool : ShouldRemove(f, dl.url)}
       IN  /\ dl' = [dl EXCEPT !.listing = "resolved", !.listed = filepool,
                               !.removeRequested = toRemove]
           /\ removals' = removals \cup toRemove
    /\ UNCHANGED <<filepool, dlCalls, currentSiteId>>
    /\ UNCHANGED otherThanStyles

\* Lines 450-452: the listing failed, the error is ignored.
ListingRejected ==
    /\ dl.listing = "pending"
    /\ dl' = [dl EXCEPT !.listing = "rejected"]
    /\ UNCHANGED <<filepool, removals, dlCalls, currentSiteId>>
    /\ UNCHANGED otherThanStyles

\* removeFileByUrl resolved: the file is not cached any more.
RemovalResolved ==
    /\ \E u \in removals :
        /\ removals' = removals \ {u}
        /\ filepool' = filepool \ {u}
    /\ UNCHANGED <<dl, dlCalls, currentSiteId>>
    /\ UNCHANGED otherThanStyles

\* Lines 444-446: removeFileByUrl rejected, the error is ignored.
RemovalRejected ==
    /\ \E u \in removals : removals' = removals \ {u}
    /\ UNCHANGED <<filepool, dl, dlCalls, currentSiteId>>
    /\ UNCHANGED otherThanStyles

\* Lines 460-464: downloadUrl resolved, the file is cached and it is read.
DownloadResolved ==
    /\ dl.pc = "download"
    /\ dl' = [dl EXCEPT !.pc = "http", !.download = "resolved"]
    /\ filepool' = filepool \cup {dl.url}
    /\ UNCHANGED <<removals, dlCalls, currentSiteId>>
    /\ UNCHANGED otherThanStyles

\* downloadUrl rejected: downloadStyles is rejected.
DownloadRejected ==
    /\ dl.pc = "download"
    /\ dl' = [dl EXCEPT !.pc = "done", !.download = "rejected", !.settled = "rejected"]
    /\ UNCHANGED <<filepool, removals, dlCalls, currentSiteId>>
    /\ UNCHANGED otherThanStyles

\* Lines 465-473: the file was read; its text is the result if it is a string.
HttpResolved ==
    /\ dl.pc = "http"
    /\ \E text \in TextValues :
        dl' = IF text # "notAString"
              THEN [dl EXCEPT !.pc = "done", !.settled = "resolved", !.result = text]
              ELSE [dl EXCEPT !.pc = "done", !.settled = "rejected"]
    /\ UNCHANGED <<filepool, removals, dlCalls, currentSiteId>>
    /\ UNCHANGED otherThanStyles

\* http.get rejected: downloadStyles is rejected.
HttpRejected ==
    /\ dl.pc = "http"
    /\ dl' = [dl EXCEPT !.pc = "done", !.settled = "rejected"]
    /\ UNCHANGED <<filepool, removals, dlCalls, currentSiteId>>
    /\ UNCHANGED otherThanStyles

\* The site changes while downloadStyles runs.
StylesSiteChanged == SiteChanged /\ UNCHANGED stylesVars /\ UNCHANGED otherThanStyles

StylesNext ==
    \/ DownloadStylesStart \/ StylesSiteResolved \/ StylesSiteRejected
    \/ ListingResolved \/ ListingRejected \/ RemovalResolved \/ RemovalRejected
    \/ DownloadResolved \/ DownloadRejected \/ HttpResolved \/ HttpRejected
    \/ StylesSiteChanged

\* ------------------------------------------------------------------------
\* downloadStyles: properties
\* ------------------------------------------------------------------------
\* The URL of a file of the site, whatever way the handler names it.
SameFile(styles, siteId, fileUrl) ==
    /\ styles.defined /\ styles.url # NoUrl
    /\ \/ styles.url = fileUrl
       \/ Head(styles.url) \notin Origins /\ fileUrl = <<SiteURL(siteId)>> \o styles.url

\* C3: once the files cached for the handler's component id are listed,
\* removeFileByUrl is requested for a file if and only if its URL differs from
\* the handler's current absolute style URL; a file with the current URL is
\* never removed; and when the handler declares no style URL every file listed
\* is removed and the result is the empty string without any download.
C3_EvictsByUrlOnly ==
    /\ dl.listing = "resolved" =>
          \A f \in dl.listed :
              f \in dl.removeRequested <=> ~SameFile(dl.styles, dl.siteId, f)
    /\ dl.removeRequested \subseteq dl.listed
    /\ dl.listing # "resolved" => dl.removeRequested = {}
    /\ \A f \in CachedUrlValues :
          SameFile(dl.styles, dl.siteId, f) /\ dl.pc # "idle"
              => f \notin dl.removeRequested
    /\ dl.pc \notin {"idle", "getSite"} /\ dl.siteId # ""
         /\ (~dl.styles.defined \/ dl.styles.url = NoUrl) =>
          /\ dl.listing = "resolved" => dl.removeRequested = dl.listed
          /\ dl.settled = "resolved" /\ dl.result = "" /\ dl.download = "none"

\* C3 witness: a handler with a relative style URL whose file is cached with
\* another file; the other file is removed and the current one is kept.
C3_Witness ==
    /\ dl.listing = "resolved"
    /\ dl.styles.defined /\ dl.styles.url = <<"a.css">>
    /\ dl.listed = {<<"https://site1", "a.css">>, <<"https://site1", "b.css">>}
    /\ dl.removeRequested = {<<"https://site1", "b.css">>}
    /\ removals = {} /\ filepool = {<<"https://site1", "a.css">>}


\* ========================================================================
\* Specifications
\* ========================================================================
\* The signup page, the upcoming events component and the site plugins helper
\* share no state; the current site id is the only state the parts of the
\* helper share.  Each part is checked alone, the other parts at rest.

\* The component at rest: no event anywhere, no filter.
CalAtRest ==
    /\ CalInit
    /\ serverEvents = <<>> /\ offlineStore = <<>> /\ deletedStore = <<>>
    /\ lookAheadPref = 0 /\ ~filter.filtered
\* downloadStyles at rest: no file cached.
StylesAtRest == StylesInit /\ filepool = {}

Init == SignupInit /\ CalInit /\ LoginInit /\ RegInit /\ StylesInit

Next == SignupNext \/ CalRefreshNext \/ LoginNext \/ RegNext \/ StylesNext

Spec == Init /\ [][Next]_vars

\* The signup page alone.
InitSignup == SignupInit /\ CalAtRest /\ LoginInit /\ RegInit /\ StylesAtRest
SpecSignup ==
    /\ InitSignup
    /\ [][SignupNext]_vars

\* The upcoming events component alone, without refreshes.
InitCal == SignupInit /\ CalInit /\ LoginInit /\ RegInit /\ StylesAtRest
SpecCal ==
    /\ InitCal
    /\ [][CalNext]_vars

\* The login and logout listeners of the helper alone.
InitLogin == SignupInit /\ CalAtRest /\ LoginInit /\ RegInit /\ StylesAtRest
SpecLogin ==
    /\ InitLogin
    /\ [][LoginNext]_vars

\* registerHandler alone.
InitRegister == SignupInit /\ CalAtRest /\ LoginInit /\ RegInit /\ StylesAtRest
SpecRegister ==
    /\ InitRegister
    /\ [][RegNext]_vars

\* The upcoming events component with refreshes, no event anywhere.
InitRefresh == SignupInit /\ CalAtRest /\ LoginInit /\ RegInit /\ StylesAtRest
SpecRefresh ==
    /\ InitRefresh
    /\ [][CalRefreshNext]_vars

\* downloadStyles alone.
InitStyles == SignupInit /\ CalAtRest /\ LoginInit /\ RegInit /\ StylesInit
SpecStyles ==
    /\ InitStyles
    /\ [][StylesNext]_vars

====
